---- MODULE Spec2Model ----
(***************************************************************************)
(* Model of the OBJ reader of src/main.rs: the line tokenizer, the element *)
(* parsers (parse_vertex, parse_normal, parse_texture_coord, parse_face),  *)
(* the dispatcher loop of main and the bounding-box fold of the summary.   *)
(*                                                                         *)
(* Text is a sequence of one-character strings.  An f32 is a record        *)
(* [k, num, den]: k = "fin" is the decimal num/den (den a power of ten,    *)
(* normalised), k = "inf" is the infinity of sign num, k = "nan" is NaN.   *)
(* Rounding to single precision is monotone and is left out: the order of  *)
(* two values and x - x = 0 are what the summary depends on.  Input text   *)
(* never uses exponent notation.  A usize is UsizeBits wide.               *)
(***************************************************************************)
EXTENDS Integers, Sequences, FiniteSets, TLC

\* ---------------------------------------------------------------- bounds
MaxLines == 3        \* lines the input file holds at most
UsizeBits == 8       \* modelled width of usize
MaxIdx == 2          \* largest index written in a generated face reference
MaxRefs == 3         \* most references on a generated face line

UsizeMax == 2^UsizeBits - 1

\* ------------------------------------------------------------ characters
WS == {" ", "\t", "\r"}
Digits == {"0", "1", "2", "3", "4", "5", "6", "7", "8", "9"}

DigitVal(c) ==
    CASE c = "0" -> 0 [] c = "1" -> 1 [] c = "2" -> 2 [] c = "3" -> 3
      [] c = "4" -> 4 [] c = "5" -> 5 [] c = "6" -> 6 [] c = "7" -> 7
      [] c = "8" -> 8 [] c = "9" -> 9

\* str::trim: strips leading and trailing whitespace
RECURSIVE trim_start(_)
trim_start(s) ==
    IF s = <<>> THEN s
    ELSE IF Head(s) \in WS THEN trim_start(Tail(s)) ELSE s

RECURSIVE trim_end(_)
trim_end(s) ==
    IF s = <<>> THEN s
    ELSE IF s[Len(s)] \in WS THEN trim_end(SubSeq(s, 1, Len(s) - 1)) ELSE s

trim(s) == trim_end(trim_start(s))

\* str::split_whitespace: the maximal runs of non-whitespace characters
RECURSIVE SplitWsFrom(_, _, _)
SplitWsFrom(s, cur, acc) ==
    IF s = <<>> THEN (IF cur = <<>> THEN acc ELSE Append(acc, cur))
    ELSE IF Head(s) \in WS
         THEN SplitWsFrom(Tail(s), <<>>, IF cur = <<>> THEN acc ELSE Append(acc, cur))
         ELSE SplitWsFrom(Tail(s), Append(cur, Head(s)), acc)

split_whitespace(s) == SplitWsFrom(s, <<>>, <<>>)

\* str::split('/'): every piece between separators, empty pieces included
RECURSIVE SplitSlashFrom(_, _, _)
SplitSlashFrom(s, cur, acc) ==
    IF s = <<>> THEN Append(acc, cur)
    ELSE IF Head(s) = "/"
         THEN SplitSlashFrom(Tail(s), <<>>, Append(acc, cur))
         ELSE SplitSlashFrom(Tail(s), Append(cur, Head(s)), acc)

split_slash(s) == SplitSlashFrom(s, <<>>, <<>>)

\* ------------------------------------------------------- integer parsing
\* an Option is a sequence: <<>> is None / Err, <<x>> is Some(x) / Ok(x)
None == <<>>
Some(x) == <<x>>

\* digits of an unsigned integer, most significant first; None on a
\* character that is no digit or on a value above UsizeMax
RECURSIVE DigitsValue(_, _)
DigitsValue(s, acc) ==
    IF s = <<>> THEN Some(acc)
    ELSE IF Head(s) \notin Digits THEN None
    ELSE LET n == acc * 10 + DigitVal(Head(s))
         IN  IF n > UsizeMax THEN None ELSE DigitsValue(Tail(s), n)

\* str::parse::<usize>: an optional '+', then at least one digit
parse_usize(s) ==
    LET body == IF s # <<>> /\ Head(s) = "+" THEN Tail(s) ELSE s
    IN  IF body = <<>> THEN None ELSE DigitsValue(body, 0)

\* ---------------------------------------------------------- real parsing
NaN == [k |-> "nan", num |-> 0, den |-> 1]
INFINITY == [k |-> "inf", num |-> 1, den |-> 1]
NEG_INFINITY == [k |-> "inf", num |-> -1, den |-> 1]

\* num/den with den a power of ten, trailing zeros removed
RECURSIVE Fin(_, _)
Fin(num, den) ==
    IF den > 1 /\ num % 10 = 0 THEN Fin(num \div 10, den \div 10)
    ELSE [k |-> "fin", num |-> num, den |-> den]

Lower(c) ==
    CASE c = "I" -> "i" [] c = "N" -> "n" [] c = "F" -> "f" [] c = "A" -> "a"
      [] c = "T" -> "t" [] c = "Y" -> "y" [] OTHER -> c

LowerAll(s) == [i \in 1..Len(s) |-> Lower(s[i])]

\* the decimal digits* [ '.' digits* ] with at least one digit, as
\* << mantissa, denominator >>; None on anything else
RECURSIVE DecimalFrom(_, _, _, _, _)
DecimalFrom(s, num, den, seenDot, nDigits) ==
    IF s = <<>> THEN (IF nDigits = 0 THEN None ELSE Some(<<num, den>>))
    ELSE IF Head(s) = "."
         THEN (IF seenDot THEN None ELSE DecimalFrom(Tail(s), num, den, TRUE, nDigits))
    ELSE IF Head(s) \in Digits
         THEN DecimalFrom(Tail(s), num * 10 + DigitVal(Head(s)),
                          IF seenDot THEN den * 10 ELSE den, seenDot, nDigits + 1)
    ELSE None

\* str::parse::<f32>: an optional sign, then inf / infinity / nan in any
\* case, or a decimal number
parse_f32(s) ==
    LET signed == s # <<>> /\ Head(s) \in {"+", "-"}
        neg == signed /\ Head(s) = "-"
        body == IF signed THEN Tail(s) ELSE s
        low == LowerAll(body)
        dec == DecimalFrom(body, 0, 1, FALSE, 0)
    IN  IF low = <<"n", "a", "n">> THEN Some(NaN)
        ELSE IF low = <<"i", "n", "f">> \/ low = <<"i", "n", "f", "i", "n", "i", "t", "y">>
             THEN Some(IF neg THEN NEG_INFINITY ELSE INFINITY)
        ELSE IF dec = None THEN None
        ELSE Some(Fin(IF neg THEN 0 - dec[1][1] ELSE dec[1][1], dec[1][2]))

\* ------------------------------------------------------- f32 arithmetic
IsNaN(a) == a.k = "nan"

\* a < b on f32; false when either is NaN
f32_lt(a, b) ==
    IF IsNaN(a) \/ IsNaN(b) THEN FALSE
    ELSE IF a.k = "inf" /\ b.k = "inf" THEN a.num < b.num
    ELSE IF a.k = "inf" THEN a.num < 0
    ELSE IF b.k = "inf" THEN b.num > 0
    ELSE a.num * b.den < b.num * a.den

\* a <= b on f32; false when either is NaN
f32_le(a, b) == ~IsNaN(a) /\ ~IsNaN(b) /\ ~f32_lt(b, a)

\* f32::min / f32::max: a NaN argument is ignored in favour of the other
f32_min(a, b) == IF IsNaN(a) THEN b ELSE IF IsNaN(b) THEN a ELSE IF f32_lt(b, a) THEN b ELSE a
f32_max(a, b) == IF IsNaN(a) THEN b ELSE IF IsNaN(b) THEN a ELSE IF f32_lt(a, b) THEN b ELSE a

\* a - b on f32
f32_sub(a, b) ==
    IF IsNaN(a) \/ IsNaN(b) THEN NaN
    ELSE IF a.k = "inf" /\ b.k = "inf" THEN (IF a.num = b.num THEN NaN ELSE a)
    ELSE IF a.k = "inf" THEN a
    ELSE IF b.k = "inf" THEN (IF b.num > 0 THEN NEG_INFINITY ELSE INFINITY)
    ELSE LET d == IF a.den >= b.den THEN a.den ELSE b.den
         IN  Fin(a.num * (d \div a.den) - b.num * (d \div b.den), d)

Zero == Fin(0, 1)

\* iter.fold(init, f32::min) and iter.fold(init, f32::max)
RECURSIVE fold_min(_, _)
fold_min(acc, xs) == IF xs = <<>> THEN acc ELSE fold_min(f32_min(acc, Head(xs)), Tail(xs))

RECURSIVE fold_max(_, _)
fold_max(acc, xs) == IF xs = <<>> THEN acc ELSE fold_max(f32_max(acc, Head(xs)), Tail(xs))

\* -------------------------------------------------------- element parsers
\* parts is the token array, keyword at index 1 (index 0 in the source)
parse_vertex(parts) ==
    IF Len(parts) >= 4
    THEN LET x == parse_f32(parts[2])
             y == parse_f32(parts[3])
             z == parse_f32(parts[4])
         IN  IF x = None \/ y = None \/ z = None THEN None
             ELSE Some([x |-> x[1], y |-> y[1], z |-> z[1]])
    ELSE None

parse_normal(parts) ==
    IF Len(parts) >= 4
    THEN LET x == parse_f32(parts[2])
             y == parse_f32(parts[3])
             z == parse_f32(parts[4])
         IN  IF x = None \/ y = None \/ z = None THEN None
             ELSE Some([x |-> x[1], y |-> y[1], z |-> z[1]])
    ELSE None

\* parse_texture_coord with the token count of parse_vertex
parse_texture_coord_min4(parts) ==
    IF Len(parts) >= 4
    THEN LET u == parse_f32(parts[2])
             v == parse_f32(parts[3])
         IN  IF u = None \/ v = None THEN None
             ELSE Some([u |-> u[1], v |-> v[1]])
    ELSE None

parse_texture_coord(parts) ==
    IF Len(parts) >= 3
    THEN LET u == parse_f32(parts[2])
             v == parse_f32(parts[3])
         IN  IF u = None \/ v = None THEN None
             ELSE Some([u |-> u[1], v |-> v[1]])
    ELSE None

\* idx - 1 on usize: a debug build panics on 0 - 1, a release build wraps
SubOverflows(idx, build) == build = "debug" /\ idx = 0
\* the index kept 1-based
sub1_keep(idx) == idx

sub1(idx) == (idx + UsizeMax) % (UsizeMax + 1)

\* slot `slot` of the split reference holds text to parse
SlotPresent(indices, slot) == Len(indices) >= slot /\ indices[slot] # <<>>

\* every index pushed onto the vertex list, whatever its slot
PushIndex_vertexOnly(acc, field, idx, build) ==
    IF SubOverflows(idx, build) THEN [acc EXCEPT !.panic = TRUE]
    ELSE [acc EXCEPT !.vertex_indices = Append(@, sub1(idx))]

\* push idx - 1 onto the list `field` of the face under construction
PushIndex(acc, field, idx, build) ==
    IF SubOverflows(idx, build) THEN [acc EXCEPT !.panic = TRUE]
    ELSE [acc EXCEPT ![field] = Append(@, sub1(idx))]

\* one iteration of the loop of parse_face over the reference face_part
FaceRef(acc, face_part, build) ==
    LET indices == split_slash(face_part)
        v_idx == parse_usize(indices[1])
        a1 == IF v_idx # None THEN PushIndex(acc, "vertex_indices", v_idx[1], build)
              ELSE acc
        t_idx == IF SlotPresent(indices, 2) THEN parse_usize(indices[2]) ELSE None
        a2 == IF ~a1.panic /\ t_idx # None
              THEN PushIndex(a1, "texture_indices", t_idx[1], build)
              ELSE a1
        n_idx == IF SlotPresent(indices, 3) THEN parse_usize(indices[3]) ELSE None
        a3 == IF ~a2.panic /\ n_idx # None
              THEN PushIndex(a2, "normal_indices", n_idx[1], build)
              ELSE a2
    IN  a3

RECURSIVE FaceLoop(_, _, _, _)
FaceLoop(parts, i, acc, build) ==
    IF i > Len(parts) \/ acc.panic THEN acc
    ELSE FaceLoop(parts, i + 1, FaceRef(acc, parts[i], build), build)

EmptyFace ==
    [vertex_indices |-> <<>>, normal_indices |-> <<>>, texture_indices |-> <<>>,
     panic |-> FALSE]

\* [panic, face]: face is None, or Some of the three index lists
parse_face(parts, build) ==
    IF Len(parts) < 4 THEN [panic |-> FALSE, face |-> None]
    ELSE LET r == FaceLoop(parts, 2, EmptyFace, build)
         IN  IF r.panic THEN [panic |-> TRUE, face |-> None]
             ELSE [panic |-> FALSE,
                   face |-> Some([vertex_indices |-> r.vertex_indices,
                                  normal_indices |-> r.normal_indices,
                                  texture_indices |-> r.texture_indices])]

\* ------------------------------------------------------------ dispatcher
Fields ==
    {"vertices", "normals", "texcoords", "faces",
     "materials", "mtllibs", "objects", "groups"}

EmptyMesh == [f \in Fields |-> <<>>]

kw_v == <<"v">>
kw_vn == <<"v", "n">>
kw_vt == <<"v", "t">>
kw_f == <<"f">>
kw_usemtl == <<"u", "s", "e", "m", "t", "l">>
kw_mtllib == <<"m", "t", "l", "l", "i", "b">>
kw_o == <<"o">>
kw_g == <<"g">>

\* the name directives pushing every argument of the line
PushName_all(m, field, parts) ==
    IF Len(parts) > 1
    THEN [m EXCEPT ![field] = @ \o SubSeq(parts, 2, Len(parts))]
    ELSE m

\* the name directives: push parts[1] when it exists
PushName(m, field, parts) ==
    IF Len(parts) > 1 THEN [m EXCEPT ![field] = Append(@, parts[2])] ELSE m

\* a keyword matched on its first character only
KeywordIs_firstChar(kw, k) == Head(kw) = Head(k)

\* an arm of the match on parts[0]: the keyword is the string k
KeywordIs(kw, k) == kw = k

\* Vec::push of an Option's content, when there is one
PushSome(m, field, opt) ==
    IF opt # None THEN [m EXCEPT ![field] = Append(@, opt[1])] ELSE m

\* the match on parts[0]: [mesh, panic]
dispatch(m, parts, build) ==
    LET kw == parts[1]
        keep(mm) == [mesh |-> mm, panic |-> FALSE]
    IN  IF KeywordIs(kw, kw_v) THEN keep(PushSome(m, "vertices", parse_vertex(parts)))
        ELSE IF KeywordIs(kw, kw_vn) THEN keep(PushSome(m, "normals", parse_normal(parts)))
        ELSE IF KeywordIs(kw, kw_vt) THEN keep(PushSome(m, "texcoords", parse_texture_coord(parts)))
        ELSE IF KeywordIs(kw, kw_f)
             THEN LET r == parse_face(parts, build)
                  IN  IF r.panic THEN [mesh |-> m, panic |-> TRUE]
                      ELSE keep(PushSome(m, "faces", r.face))
        ELSE IF KeywordIs(kw, kw_usemtl) THEN keep(PushName(m, "materials", parts))
        ELSE IF KeywordIs(kw, kw_mtllib) THEN keep(PushName(m, "mtllibs", parts))
        ELSE IF KeywordIs(kw, kw_o) THEN keep(PushName(m, "objects", parts))
        ELSE IF KeywordIs(kw, kw_g) THEN keep(PushName(m, "groups", parts))
        ELSE keep(m)

\* the body of the loop of main for a line that was read: [mesh, panic]
process_line(m, text, build) ==
    LET t == trim(text)
        parts == split_whitespace(t)
    IN  IF t = <<>> \/ Head(t) = "#" THEN [mesh |-> m, panic |-> FALSE]
        ELSE IF parts = <<>> THEN [mesh |-> m, panic |-> FALSE]
        ELSE dispatch(m, parts, build)

\* ---------------------------------------------------------------- input
RECURSIVE Concat(_)
Concat(ss) == IF ss = <<>> THEN <<>> ELSE Head(ss) \o Concat(Tail(ss))

\* the words separated by single spaces
RECURSIVE JoinSp(_)
JoinSp(ws) ==
    IF ws = <<>> THEN <<>>
    ELSE IF Len(ws) = 1 THEN ws[1]
    ELSE ws[1] \o <<" ">> \o JoinSp(Tail(ws))

skin == <<"s", "k", "i", "n">>

IgnoredLines ==
    { <<>>,
      <<" ", "\t">>,
      JoinSp(<< <<"#">>, kw_v, <<"1">>, <<"2">>, <<"3">> >>),
      <<" ", "#", "g">>,
      JoinSp(<< <<"s">>, <<"1">> >>),
      JoinSp(<< <<"v", "p">>, <<"1">>, <<"2">>, <<"3">> >>) }

VertexLines ==
    { JoinSp(<< kw_v, <<"1">>, <<"2">> >>),
      JoinSp(<< kw_v, <<"a">>, <<"b">>, <<"c">> >>),
      JoinSp(<< kw_v, <<"1">>, <<"2">>, <<"3">> >>),
      JoinSp(<< kw_v, <<"2", ".", "5">>, <<"-", "1", ".", "0">>, <<"0", ".", "2", "5">> >>),
      <<" ", "v", "\t", "0", " ", " ", "0", " ", "0", " ", "x", "\r">>,
      JoinSp(<< kw_v, <<"n", "a", "n">>, <<"0">>, <<"0">> >>),
      JoinSp(<< kw_v, <<"i", "n", "f">>, <<"0">>, <<"0">> >>),
      JoinSp(<< kw_vn, <<"0">>, <<"0">>, <<"1">> >>),
      JoinSp(<< kw_vn, <<"0">>, <<"1">> >>),
      JoinSp(<< kw_vt, <<"0">>, <<"1">> >>),
      JoinSp(<< kw_vt, <<"1">>, <<"0">>, <<"x">> >>),
      JoinSp(<< kw_vt, <<"1">> >>) }

FaceLines ==
    { JoinSp(<< kw_f, <<"1">>, <<"2">>, <<"3">> >>),
      JoinSp(<< kw_f, <<"1">>, <<"2">> >>),
      JoinSp(<< kw_f, <<"1", "/", "1", "/", "1">>, <<"2", "/", "2", "/", "1">>,
                <<"3", "/", "/", "1">> >>),
      JoinSp(<< kw_f, <<"x", "/", "2", "/", "3">>, <<"1">>, <<"2">> >>),
      JoinSp(<< kw_f, <<"0">>, <<"1">>, <<"2">> >>),
      JoinSp(<< kw_f, <<"1">>, <<"b">>, <<"c">> >>),
      JoinSp(<< kw_f, <<"a">>, <<"b">>, <<"c">> >>) }

NameLines ==
    { JoinSp(<< kw_usemtl, skin >>),
      JoinSp(<< kw_usemtl, skin, <<"x">> >>),
      JoinSp(<< kw_usemtl >>),
      JoinSp(<< kw_mtllib, <<"m">> >>),
      JoinSp(<< kw_o, <<"t">> >>),
      JoinSp(<< kw_g, <<"h">> >>) }

\* the lines an input file is made of
Lines == IgnoredLines \cup VertexLines \cup FaceLines \cup NameLines

\* usize::to_string
RECURSIVE Fmt(_)
Fmt(n) ==
    LET d == CHOOSE c \in Digits : DigitVal(c) = n % 10
    IN  IF n < 10 THEN <<d>> ELSE Append(Fmt(n \div 10), d)

\* a face reference i, i/t, i//n or i/t/n; t = 0 or n = 0 is an absent slot
Refs == [i : 1..MaxIdx, t : 0..MaxIdx, n : 0..MaxIdx]

FormatRef(r) ==
    Fmt(r.i)
    \o (IF r.t = 0 /\ r.n = 0 THEN <<>> ELSE <<"/">>)
    \o (IF r.t = 0 THEN <<>> ELSE Fmt(r.t))
    \o (IF r.n = 0 THEN <<>> ELSE <<"/">> \o Fmt(r.n))

RefSeqs == UNION { [1..k -> Refs] : k \in 3..MaxRefs }

FormatFaceLine(rs) == JoinSp(<<kw_f>> \o [j \in 1..Len(rs) |-> FormatRef(rs[j])])

\* --------------------------------------------------------------- summary
Axis(vs, a) == [j \in 1..Len(vs) |-> vs[j][a]]

\* the bounding-box section: None for no vertices, else the six folds and
\* the three printed ranges
bounding_box(vs) ==
    IF vs = <<>> THEN None
    ELSE LET min_x == fold_min(INFINITY, Axis(vs, "x"))
             max_x == fold_max(NEG_INFINITY, Axis(vs, "x"))
             min_y == fold_min(INFINITY, Axis(vs, "y"))
             max_y == fold_max(NEG_INFINITY, Axis(vs, "y"))
             min_z == fold_min(INFINITY, Axis(vs, "z"))
             max_z == fold_max(NEG_INFINITY, Axis(vs, "z"))
         IN  Some([min_x |-> min_x, max_x |-> max_x, dx |-> f32_sub(max_x, min_x),
                   min_y |-> min_y, max_y |-> max_y, dy |-> f32_sub(max_y, min_y),
                   min_z |-> min_z, max_z |-> max_z, dz |-> f32_sub(max_z, min_z)])

\* ----------------------------------------------------------------- state
VARIABLES
    pc,          \* "start", "loop", "summary", "done", "no_input", "panicked"
    build,       \* "debug" or "release": whether 0 - 1 panics or wraps
    file,        \* "missing", "unopenable" or "ok"
    mesh,        \* the eight sequences of main
    meshPlain,   \* the eight sequences of a run on the same input without its ignored lines
    line,        \* the last item the line iterator gave: [ok, text]
    refs,        \* the references a generated face line was written from
    lineNo,      \* items taken from the line iterator
    diag,        \* lines written to the error stream
    exitStatus,  \* -1 while running, then the status of the process
    bbox         \* the bounding-box section of the report

vars == <<pc, build, file, mesh, meshPlain, line, refs, lineNo, diag, exitStatus, bbox>>

\* a line the loop of main does nothing for: blank, a comment, or a line
\* whose keyword is none of the eight directives (read off the text itself)
Keywords == {kw_v, kw_vn, kw_vt, kw_f, kw_usemtl, kw_mtllib, kw_o, kw_g}

RECURSIVE FirstWord(_)
FirstWord(s) ==
    IF s = <<>> \/ Head(s) \in WS THEN <<>> ELSE <<Head(s)>> \o FirstWord(Tail(s))

RECURSIVE SkipWs(_)
SkipWs(s) == IF s # <<>> /\ Head(s) \in WS THEN SkipWs(Tail(s)) ELSE s

Ignored(text) ==
    LET t == SkipWs(text)
    IN  t = <<>> \/ Head(t) = "#" \/ FirstWord(t) \notin Keywords

Init ==
    /\ pc = "start"
    /\ build \in {"debug", "release"}
    /\ file \in {"missing", "unopenable", "ok"}
    /\ mesh = EmptyMesh
    /\ meshPlain = EmptyMesh
    /\ line = [ok |-> FALSE, text |-> <<>>]
    /\ refs = <<>>
    /\ lineNo = 0
    /\ diag = 0
    /\ exitStatus = -1
    /\ bbox = None

\* main, lines 108-112: the path does not exist
FileMissing ==
    /\ pc = "start" /\ file = "missing"
    /\ diag' = diag + 2
    /\ pc' = "no_input"
    /\ exitStatus' = 0
    /\ UNCHANGED <<build, file, mesh, meshPlain, line, refs, lineNo, bbox>>

\* main, lines 114-120: File::open fails
OpenFails ==
    /\ pc = "start" /\ file = "unopenable"
    /\ diag' = diag + 1
    /\ pc' = "no_input"
    /\ exitStatus' = 0
    /\ UNCHANGED <<build, file, mesh, meshPlain, line, refs, lineNo, bbox>>

\* main, lines 114-134: the file opens, the eight sequences are created
OpenOk ==
    /\ pc = "start" /\ file = "ok"
    /\ pc' = "loop"
    /\ mesh' = EmptyMesh
    /\ meshPlain' = EmptyMesh
    /\ UNCHANGED <<build, file, line, refs, lineNo, diag, exitStatus, bbox>>

\* one iteration of the loop of main on the line `text`
Step(text) ==
    LET r == process_line(mesh, text, build)
        q == IF Ignored(text) THEN [mesh |-> meshPlain, panic |-> FALSE]
             ELSE process_line(meshPlain, text, build)
    IN  /\ pc = "loop"
        /\ line' = [ok |-> TRUE, text |-> text]
        /\ lineNo' = lineNo + 1
        /\ mesh' = r.mesh
        /\ meshPlain' = q.mesh
        /\ IF r.panic
           THEN pc' = "panicked" /\ exitStatus' = 101 /\ diag' = diag + 1
           ELSE UNCHANGED <<pc, exitStatus, diag>>
        /\ UNCHANGED <<build, file, bbox>>

\* main, lines 136-198: the iterator gives a line of the file
ReadLine ==
    /\ lineNo < MaxLines
    /\ \E text \in Lines : Step(text)
    /\ UNCHANGED refs

\* the same iteration in a file of one face line written from references
ReadFaceLine ==
    /\ lineNo < 1
    /\ \E rs \in RefSeqs : Step(FormatFaceLine(rs)) /\ refs' = rs

\* main, lines 137-143: the iterator gives an error; a diagnostic, then on
ReadLineErr ==
    /\ pc = "loop" /\ lineNo < MaxLines
    /\ line' = [ok |-> FALSE, text |-> <<>>]
    /\ lineNo' = lineNo + 1
    /\ diag' = diag + 1
    /\ UNCHANGED <<pc, build, file, mesh, meshPlain, refs, exitStatus, bbox>>

\* main, line 198: the iterator is exhausted
EndOfInput ==
    /\ pc = "loop"
    /\ pc' = "summary"
    /\ UNCHANGED <<build, file, mesh, meshPlain, line, refs, lineNo, diag, exitStatus, bbox>>

\* main, lines 200-316: the report, then main returns
Summarize ==
    /\ pc = "summary"
    /\ bbox' = bounding_box(mesh.vertices)
    /\ pc' = "done"
    /\ exitStatus' = 0
    /\ UNCHANGED <<build, file, mesh, meshPlain, line, refs, lineNo, diag>>

Next ==
    \/ FileMissing
    \/ OpenFails
    \/ OpenOk
    \/ ReadLine
    \/ ReadLineErr
    \/ EndOfInput
    \/ Summarize

Spec == Init /\ [][Next]_vars

NextFace ==
    \/ OpenOk
    \/ ReadFaceLine
    \/ EndOfInput
    \/ Summarize

SpecFace == Init /\ [][NextFace]_vars

TypeOK ==
    /\ pc \in {"start", "loop", "summary", "done", "no_input", "panicked"}
    /\ DOMAIN mesh = Fields
    /\ lineNo \in 0..MaxLines

\* ------------------------------------------------- vocabulary of the claims
\* the tokens of the last line read
LineParts == split_whitespace(line.text)

\* the last line read is a line of keyword kw
IsLine(kw) == line.ok /\ LineParts # <<>> /\ LineParts[1] = kw

\* a step that took one readable line from the iterator
LineStep == lineNo' = lineNo + 1 /\ line'.ok

\* at most the sequence f changed, and only by one element pushed at its end
OnlyPushed(f) ==
    /\ \A g \in Fields \ {f} : mesh'[g] = mesh[g]
    /\ Len(mesh'[f]) = Len(mesh[f]) + 1
    /\ SubSeq(mesh'[f], 1, Len(mesh[f])) = mesh[f]

Last(sq) == sq[Len(sq)]

\* the reference tokens of the token array parts whose slot parses as usize
RefsWith(parts, slot) ==
    { j \in 2..Len(parts) :
        LET ix == split_slash(parts[j])
        IN  Len(ix) >= slot /\ parse_usize(ix[slot]) # None }

\* ------------------------------------------------------------------- C1
\* C1: a missing or unopenable input file ends the run with a diagnostic and
\* a non-zero exit status, before any line is read and without a summary;
\* every other run ends with exit status zero.
C1_ExitStatus ==
    /\ pc = "no_input" => exitStatus # 0 /\ diag > 0 /\ lineNo = 0 /\ bbox = None
    /\ pc \in {"done", "panicked"} => exitStatus = 0

\* ------------------------------------------------------------------- C2
\* C2: once the file is open no line content aborts parsing: the run is in
\* the loop, in the summary or done, never stopped by a line (an f line with
\* a 0 slot included).
C2_NeverAborts == (file = "ok" /\ pc # "start") => pc \in {"loop", "summary", "done"}

\* ------------------------------------------------------------------- C3
\* C3: a reference whose first sub-string does not parse is dropped whole:
\* the texture (normal) list of the face holds one index per reference whose
\* first AND second (third) sub-strings parse, and none for the others.
C3_DropsWholeReference ==
    (IsLine(kw_f) /\ Len(LineParts) >= 4 /\ pc # "panicked" /\ mesh.faces # <<>>) =>
        LET face == Last(mesh.faces)
            valid == RefsWith(LineParts, 1)
        IN  /\ Len(face.texture_indices) = Cardinality(valid \cap RefsWith(LineParts, 2))
            /\ Len(face.normal_indices) = Cardinality(valid \cap RefsWith(LineParts, 3))

\* ------------------------------------------------------------------- C4
\* C4 as stated: in every face of the face sequence a non-empty texture list
\* is as long as the vertex list, and so is a non-empty normal list.
C4_EqualLengths ==
    \A j \in 1..Len(mesh.faces) :
        LET face == mesh.faces[j]
        IN  /\ face.texture_indices # <<>> =>
                   Len(face.texture_indices) = Len(face.vertex_indices)
            /\ face.normal_indices # <<>> =>
                   Len(face.normal_indices) = Len(face.vertex_indices)

\* C4 as amended: the face an f line appends has one vertex index per
\* reference whose first sub-string parses, one texture index per reference
\* whose second sub-string parses and one normal index per reference whose
\* third sub-string parses; a texture or normal list is as long as the vertex
\* list exactly when the same number of references carry the two slots.
C4_LengthsFollowSlots ==
    [][(LineStep /\ mesh'.faces # mesh.faces) =>
          LET face == Last(mesh'.faces)
              parts == split_whitespace(line'.text)
          IN  /\ Len(face.vertex_indices) = Cardinality(RefsWith(parts, 1))
              /\ Len(face.texture_indices) = Cardinality(RefsWith(parts, 2))
              /\ Len(face.normal_indices) = Cardinality(RefsWith(parts, 3))]_vars

\* a face whose texture list is shorter than its vertex list and not empty
C4_Witness ==
    /\ mesh.faces # <<>>
    /\ Last(mesh.faces).texture_indices # <<>>
    /\ Len(Last(mesh.faces).texture_indices) < Len(Last(mesh.faces).vertex_indices)
    /\ Len(Last(mesh.faces).normal_indices) = Len(Last(mesh.faces).vertex_indices)

\* ------------------------------------------------------------------- C5
\* the indices of the slot `slot` of the references rs that have the slot,
\* in order, each less one
RECURSIVE SlotIndices(_, _)
SlotIndices(rs, slot) ==
    IF rs = <<>> THEN <<>>
    ELSE (IF Head(rs)[slot] > 0 THEN <<Head(rs)[slot] - 1>> ELSE <<>>)
         \o SlotIndices(Tail(rs), slot)

\* C5: an f line of three or more references i, i/t, i//n, i/t/n with
\* positive integers appends the face whose vertex list is the i-1, whose
\* texture list is the t-1 of the references that have a t and whose normal
\* list is the n-1 of the references that have an n, in token order.
C5_SlotsPopulated ==
    refs # <<>> =>
        /\ Len(mesh.faces) = 1
        /\ mesh.faces[1].vertex_indices = SlotIndices(refs, "i")
        /\ mesh.faces[1].texture_indices = SlotIndices(refs, "t")
        /\ mesh.faces[1].normal_indices = SlotIndices(refs, "n")

\* a face read from references of the forms i//n, i/t and i/t/n
C5_Witness ==
    /\ refs # <<>> /\ mesh.faces # <<>>
    /\ \E j \in 1..Len(refs) : refs[j].t = 0 /\ refs[j].n > 0
    /\ \E j \in 1..Len(refs) : refs[j].t > 0 /\ refs[j].n = 0
    /\ \E j \in 1..Len(refs) : refs[j].t > 0 /\ refs[j].n > 0
    /\ Len(mesh.faces[1].texture_indices) = 2

\* ------------------------------------------------------------------- C6
\* C6: blank lines, comment lines and lines of an unknown keyword, put
\* anywhere in an input, leave the mesh what it is for the input without
\* them (all eight sequences, contents and order); an input of such lines
\* only leaves the eight sequences empty.
C6_IgnoredLinesChangeNothing == mesh = meshPlain

\* an unknown directive read after a line that put something in the mesh
C6_Witness ==
    /\ lineNo >= 2 /\ line.ok /\ Ignored(line.text)
    /\ LineParts # <<>> /\ Head(LineParts[1]) # "#"
    /\ mesh.vertices # <<>>
    /\ pc = "done"

\* ------------------------------------------------------------------- C7
\* C7: a v (vn) line pushes one vertex (normal) iff it has at least 4 tokens
\* and tokens 1..3 parse as reals, a vt line pushes one texture coordinate
\* iff it has at least 3 tokens and tokens 1 and 2 parse as reals; tokens
\* after those are not looked at; any other v, vn or vt line changes none of
\* the eight sequences and the loop goes on.
C7_PushIffParses ==
    [][LET parts == split_whitespace(line'.text)
           nargs == IF parts[1] = kw_vt THEN 2 ELSE 3
           field == IF parts[1] = kw_v THEN "vertices"
                    ELSE IF parts[1] = kw_vn THEN "normals" ELSE "texcoords"
           wellFormed == /\ Len(parts) >= nargs + 1
                         /\ \A j \in 2..(nargs + 1) : parse_f32(parts[j]) # None
       IN  (LineStep /\ parts # <<>> /\ parts[1] \in {kw_v, kw_vn, kw_vt}) =>
               /\ pc' = "loop"
               /\ IF wellFormed THEN OnlyPushed(field) ELSE mesh' = mesh]_vars

\* a v line with too few or unparseable coordinates was skipped after a vt
\* line with an unparseable extra token pushed its coordinate
C7_Witness ==
    /\ IsLine(kw_v) /\ lineNo = 2
    /\ (Len(LineParts) < 4 \/ parse_f32(LineParts[2]) = None)
    /\ mesh.vertices = <<>>
    /\ Len(mesh.texcoords) = 1 /\ mesh.normals = <<>> /\ mesh.faces = <<>>
    /\ pc = "loop"

\* ------------------------------------------------------------------- C8
\* C8: with at least one vertex the bounding box has min <= max on each
\* axis, each bound is a coordinate of some vertex, and with exactly one
\* vertex each printed range max - min is zero.
C8_BoundingBox ==
    (pc = "done" /\ mesh.vertices # <<>>) =>
        /\ bbox # None
        /\ LET b == bbox[1]
               vs == mesh.vertices
               coords(a) == {vs[j][a] : j \in 1..Len(vs)}
           IN  /\ f32_le(b.min_x, b.max_x) /\ f32_le(b.min_y, b.max_y)
               /\ f32_le(b.min_z, b.max_z)
               /\ {b.min_x, b.max_x} \subseteq coords("x")
               /\ {b.min_y, b.max_y} \subseteq coords("y")
               /\ {b.min_z, b.max_z} \subseteq coords("z")
               /\ Len(vs) = 1 => b.dx = Zero /\ b.dy = Zero /\ b.dz = Zero

\* ------------------------------------------------------------------- C9
\* C9: an f line pushes exactly one face iff it has at least 4 tokens,
\* however many of its references parse; the vertex list of that face
\* holds one index per reference whose first sub-string parses; an f line
\* of fewer tokens pushes nothing.
C9_FaceIffFourTokens ==
    [][LET parts == split_whitespace(line'.text)
       IN  (LineStep /\ parts # <<>> /\ parts[1] = kw_f) =>
               IF Len(parts) >= 4
               THEN /\ OnlyPushed("faces")
                    /\ Len(Last(mesh'.faces).vertex_indices)
                           = Cardinality(RefsWith(parts, 1))
               ELSE mesh' = mesh]_vars

\* ------------------------------------------------------------------ C10
NameField(kw) ==
    CASE kw = kw_usemtl -> "materials" [] kw = kw_mtllib -> "mtllibs"
      [] kw = kw_o -> "objects" [] kw = kw_g -> "groups"

\* C10: the mesh starts as eight empty sequences; a step changes no
\* sequence or pushes exactly one element at the end of exactly one; for
\* usemtl, mtllib, o and g with at least 2 tokens that element is token 1;
\* the summary changes no sequence.
C10_AppendOnly ==
    /\ mesh = EmptyMesh
    /\ [][/\ mesh' = mesh \/ \E f \in Fields : OnlyPushed(f)
          /\ LET parts == split_whitespace(line'.text)
             IN  (/\ LineStep /\ Len(parts) >= 2
                  /\ parts[1] \in {kw_usemtl, kw_mtllib, kw_o, kw_g}) =>
                     /\ OnlyPushed(NameField(parts[1]))
                     /\ Last(mesh'[NameField(parts[1])]) = parts[2]
          /\ pc \in {"summary", "done"} => mesh' = mesh]_vars

\* usemtl skin twice, the second time with a further argument
C10_Witness ==
    /\ mesh.materials = <<skin, skin>>
    /\ IsLine(kw_usemtl) /\ Len(LineParts) = 3
    /\ pc = "done"

====
